---- MODULE Spec2Model ----
(***************************************************************************)
(* Temperature analysis of an RC thermal network (src/src/analysis/mod.rs).*)
(*                                                                         *)
(* Analysis::new builds the operators D, E, F from the circuit and the     *)
(* configuration; Analysis::step advances the history buffer S by the      *)
(* columns of a power trace P and writes the core temperatures into Q.     *)
(*                                                                         *)
(* Numbers.  An f64 is modelled as an exact integer, a signed infinity or  *)
(* NaN; rounding and overflow of finite values are not modelled.  The      *)
(* special values follow IEEE 754: 0/0 = NaN, x/0 = +-inf, inf*0 = NaN,    *)
(* inf-inf = NaN, and NaN is absorbing.  Two model values are equal when   *)
(* they are the same value (NaN equals NaN: the same outcome).             *)
(*                                                                         *)
(* Arrays.  A Vec<f64> or slice is a sequence; At(a, i) is the source's    *)
(* a[i] (0-based).  Matrices are column-major, as in the source.           *)
(*                                                                         *)
(* Libraries.  linear::multiply is modelled by its contract,               *)
(* C <- alpha*A*B + beta*C, in the arithmetic above.  The result of        *)
(* linear::symmetric_eigen is drawn: eigenvalues from a small set, and     *)
(* eigenvectors that are orthonormal in exact integers (permutations).     *)
(* The matrix A of lines 42-47 is only the solver's input and is not kept. *)
(*                                                                         *)
(* Panics.  A panic (a failed debug_assert! or bounds check) ends the run; *)
(* what the call wrote before it stays written.  debug_assert! is checked  *)
(* in a debug build and dropped in a release build.                        *)
(***************************************************************************)
EXTENDS Integers, Sequences, FiniteSets, TLC

\* ------------------------------------------------------------------ bounds

\* Largest number of power columns (steps) of one call of step.
MaxSteps == 2

\* Largest number of power columns processed by all calls of one run.
MaxTotal == 3

\* ------------------------------------------------------------------- f64

Num(n) == [k |-> "num", v |-> n]
NaN == [k |-> "nan", v |-> 0]
Inf(s) == [k |-> "inf", v |-> s]

Zero == Num(0)
One == Num(1)

Sign(n) == IF n > 0 THEN 1 ELSE IF n < 0 THEN -1 ELSE 0

\* a + b
FAdd(a, b) ==
    IF a.k = "nan" \/ b.k = "nan" THEN NaN
    ELSE IF a.k = "inf" /\ b.k = "inf" THEN (IF a.v = b.v THEN a ELSE NaN)
    ELSE IF a.k = "inf" THEN a
    ELSE IF b.k = "inf" THEN b
    ELSE Num(a.v + b.v)

\* a * b
FMul(a, b) ==
    IF a.k = "nan" \/ b.k = "nan" THEN NaN
    ELSE IF a.k = "inf" \/ b.k = "inf"
         THEN (IF Sign(a.v) * Sign(b.v) = 0 THEN NaN ELSE Inf(Sign(a.v) * Sign(b.v)))
    ELSE Num(a.v * b.v)

FNeg(a) == IF a.k = "nan" THEN NaN ELSE [k |-> a.k, v |-> 0 - a.v]

\* a - b
FSub(a, b) == FAdd(a, FNeg(b))

\* Quotient of two integers, truncated toward zero where it is not exact.
Quot(a, b) == Sign(a) * Sign(b) * ((Sign(a) * a) \div (Sign(b) * b))

\* a / b
FDiv(a, b) ==
    IF a.k = "nan" \/ b.k = "nan" THEN NaN
    ELSE IF a.k = "inf" THEN (IF b.k = "inf" THEN NaN
                              ELSE Inf(a.v * (IF b.v < 0 THEN -1 ELSE 1)))
    ELSE IF b.k = "inf" THEN Zero
    ELSE IF b.v = 0 THEN (IF a.v = 0 THEN NaN ELSE Inf(Sign(a.v)))
    ELSE Num(Quot(a.v, b.v))

\* f64::exp.  The exponential is modelled to base 2 on the non-negative
\* integers: exp(0) = 1 exactly, exp(a + b) = exp(a) * exp(b), exp(x) > 1
\* for x > 0.  The eigenvalues the model draws are non-negative.
FExp(a) ==
    IF a.k = "nan" THEN NaN
    ELSE IF a.k = "inf" THEN (IF a.v > 0 THEN a ELSE Zero)
    ELSE Num(2 ^ a.v)

\* f64::sqrt(1.0 / c) for a capacitance c = 1/den given by its denominator;
\* the denominators the model draws are perfect squares.
RecipSqrt(den) == Num(CHOOSE r \in 0..den : r * r = den)

\* ---------------------------------------------------------------- arrays

At(a, i) == a[i + 1]

\* The array of the n elements f[1], ..., f[n], as a sequence.
Array(f, n) == SubSeq(f, 1, n)

\* vec![x; n]
Fill(x, n) == Array([i \in 1..n |-> x], n)

\* a[from..to]
Slice(a, from, to) == SubSeq(a, from + 1, to)

\* a with a[from..from+Len(b)] overwritten by b
Patch(a, from, b) ==
    SubSeq(a, 1, from) \o b \o SubSeq(a, from + Len(b) + 1, Len(a))

\* sum over l < p of A[l*m + i] * B[j*p + l]
Dot(A, B, m, p, i, j) ==
    IF p = 0 THEN Zero
    ELSE LET RECURSIVE Acc(_)
             Acc(l) == IF l = 0 THEN FMul(At(A, i), At(B, j * p))
                       ELSE FAdd(Acc(l - 1), FMul(At(A, l * m + i), At(B, j * p + l)))
         IN Acc(p - 1)

\* linear::multiply(alpha, A, B, beta, C, m): C <- alpha*A*B + beta*C for the
\* column-major m-by-p matrix A, p-by-n matrix B and m-by-n matrix C, the
\* shapes taken from m and the lengths of A and B.  Every product enters the
\* sum, a zero factor included (NaN * 0 = NaN).
multiply(alpha, A, B, beta, C, m) ==
    LET p == Len(A) \div m
        n == Len(B) \div p
    IN Array([x \in 1..Len(C) |->
                LET i == (x - 1) % m
                    j == (x - 1) \div m
                IN IF j < n
                   THEN FAdd(FMul(alpha, Dot(A, B, m, p, i, j)), FMul(beta, C[x]))
                   ELSE C[x]], Len(C))

\* ------------------------------------------------------------- the inputs

\* Circuit::nodes
NodeCounts == {1, 2}

\* Circuit::capacitance, each entry 1/den for a den of this set
CapacitanceDens == {1, 4}

\* Config::time_step
TimeSteps == {2}

\* Config::ambience
Ambiences == {Num(3)}

\* The eigenvalues linear::symmetric_eigen may return.
Eigenvalues == {Zero, One}

\* Entries of a power trace.
Powers == {Zero, One}

\* What the caller's output buffer holds before a call.
Stale == Num(-1)

Identity(n) == [x \in 1..(n * n) |-> IF (x - 1) % n = (x - 1) \div n THEN One ELSE Zero]

Exchange(n) ==
    [x \in 1..(n * n) |-> IF ((x - 1) % n) + ((x - 1) \div n) = n - 1 THEN One ELSE Zero]

\* The orthonormal eigenvector matrices linear::symmetric_eigen may return:
\* with exact integers these are permutation matrices (uncoupled nodes).
EigenBases(n) == {Identity(n), Exchange(n)}

\* ---------------------------------------------------------------- state

VARIABLES
    pc,      \* "new": not constructed; "ready"; "failed": new returned Err;
             \* "panicked": a call of step panicked
    debug,   \* the build keeps debug_assert! (debug) or drops it (release)
    config,  \* Analysis::config
    system,  \* Analysis::system without S
    S,       \* System::S: len, capacity and the allocation's contents
    T1,      \* the local T1 of new after line 74: the forcing coefficients
    P,       \* the power trace of the latest call of step
    Q,       \* the caller's output buffer after the latest call
    pre,     \* S and Q as they were when the latest call began
    total    \* power columns processed so far

vars == <<pc, debug, config, system, S, T1, P, Q, pre, total>>

NoVec == [len |-> 0, cap |-> 0, mem |-> <<>>]

Init ==
    /\ pc = "new"
    /\ debug \in BOOLEAN
    /\ config = [time_step |-> 0, ambience |-> Zero]
    /\ system = [cores |-> 0, nodes |-> 0, U |-> <<>>, L |-> <<>>,
                 D |-> <<>>, E |-> <<>>, F |-> <<>>]
    /\ S = NoVec
    /\ T1 = <<>>
    /\ P = <<>>
    /\ Q = <<>>
    /\ pre = [S |-> NoVec, Q |-> <<>>]
    /\ total = 0

\* ------------------------------------------------------------ Analysis::new

\* lines 37-40
ScalingD(capacitance, nodes) == [i \in 1..nodes |-> RecipSqrt(capacitance[i])]

\* lines 60-62
Decay(dt, L, nodes) == [i \in 1..nodes |-> FExp(FMul(Num(dt), L[i]))]

\* lines 63-70
PropagationE(U, tau, nodes) ==
    LET T2 == [x \in 1..(nodes * nodes) |->
                 LET i == (x - 1) % nodes
                     j == (x - 1) \div nodes
                 IN FMul(At(tau, i), At(U, i * nodes + j))]
    IN multiply(One, U, T2, One, Fill(Zero, nodes * nodes), nodes)

\* lines 72-74
ForcingCoefficient(L, tau, nodes) ==
    [i \in 1..nodes |-> FDiv(FSub(tau[i], One), L[i])]

\* lines 75-82
ForcingF(U, D, coef, nodes, cores) ==
    LET T2 == [x \in 1..(nodes * cores) |->
                 LET i == (x - 1) % nodes
                     j == (x - 1) \div nodes
                 IN FMul(FMul(At(coef, i), At(U, i * nodes + j)), At(D, j))]
    IN multiply(One, U, T2, One, Fill(Zero, nodes * cores), nodes)

\* line 89
InitialS(nodes) == [len |-> 2 * nodes, cap |-> 2 * nodes, mem |-> Fill(Zero, 2 * nodes)]

\* Analysis::new(circuit, config) returning Ok, the eigen solver having
\* returned the eigenvectors U and the eigenvalues L.
New(nodes, cores, capacitance, dt, ambience, U, L) ==
    /\ pc = "new"
    /\ LET D == ScalingD(capacitance, nodes)
           tau == Decay(dt, L, nodes)
           coef == ForcingCoefficient(L, tau, nodes)
       IN /\ system' = [cores |-> cores, nodes |-> nodes, U |-> U, L |-> L, D |-> D,
                        E |-> PropagationE(U, tau, nodes),
                        F |-> ForcingF(U, D, coef, nodes, cores)]
          /\ T1' = coef
    /\ config' = [time_step |-> dt, ambience |-> ambience]
    /\ S' = InitialS(nodes)
    /\ pc' = "ready"
    /\ UNCHANGED <<debug, P, Q, pre, total>>

\* Analysis::new returning Err: linear::symmetric_eigen failed (lines 51-53).
NewFails ==
    /\ pc = "new"
    /\ pc' = "failed"
    /\ UNCHANGED <<debug, config, system, S, T1, P, Q, pre, total>>

\* ----------------------------------------------------------- Analysis::step

\* lines 111-113: a fresh zeroed buffer of exactly `required` elements with
\* the last block of S copied to its front.
Reallocate(s, nodes, required) ==
    [len |-> required, cap |-> required,
     mem |-> Patch(Fill(Zero, required), 0, Slice(s.mem, s.len - nodes, s.len))]

\* line 115: the last block of S copied to the front of the allocation.
MoveLast(s, nodes) ==
    [s EXCEPT !.mem = Patch(s.mem, 0, Slice(s.mem, s.len - nodes, s.len))]

\* ZeroRest without the zero-fill: the length set over what earlier calls left.
ZeroRestUnfilled(s, nodes, required) == [s EXCEPT !.len = required]

\* ZeroRest that only ever extends the length.
ZeroRestNeverShrinks(s, nodes, required) ==
    [s EXCEPT !.mem = Patch(s.mem, nodes, Fill(Zero, required - nodes)),
              !.len = IF required > s.len THEN required ELSE s.len]

\* lines 116-117: positions [nodes, required) zeroed, the length set.
ZeroRest(s, nodes, required) ==
    [s EXCEPT !.mem = Patch(s.mem, nodes, Fill(Zero, required - nodes)),
              !.len = required]

\* lines 115-117
Reuse(s, nodes, required) == ZeroRest(MoveLast(s, nodes), nodes, required)

\* NeedsReallocation with != for <: a buffer larger than required is replaced.
NeedsReallocationUnlessExact(s, required) == s.cap # required

\* line 110
NeedsReallocation(s, required) == s.cap < required

\* lines 110-118
Grow(s, nodes, required) ==
    IF NeedsReallocation(s, required)
    THEN Reallocate(s, nodes, required)
    ELSE Reuse(s, nodes, required)

\* line 116: the bounds check of S[nodes] in the reuse branch fails.
GrowPanics(s, nodes, required) == ~NeedsReallocation(s, required) /\ ~(nodes < s.len)

\* line 121
Force(sys, s, p) ==
    [s EXCEPT !.mem = Patch(s.mem, sys.nodes,
        multiply(One, sys.F, p, One, Slice(s.mem, sys.nodes, s.len), sys.nodes))]

\* PropagateOne reading block 0 for every step, not block i.
PropagateOneFromFirst(sys, s, i) ==
    LET nodes == sys.nodes
        from == Slice(s.mem, 0, nodes)
        into == Slice(s.mem, (i + 1) * nodes, (i + 2) * nodes)
    IN [s EXCEPT !.mem = Patch(s.mem, (i + 1) * nodes,
                               multiply(One, sys.E, from, One, into, nodes))]

\* lines 124-125: block i+1 <- E * block i + block i+1
PropagateOne(sys, s, i) ==
    LET nodes == sys.nodes
        from == Slice(s.mem, i * nodes, (i + 1) * nodes)
        into == Slice(s.mem, (i + 1) * nodes, (i + 2) * nodes)
    IN [s EXCEPT !.mem = Patch(s.mem, (i + 1) * nodes,
                               multiply(One, sys.E, from, One, into, nodes))]

RECURSIVE PropagateTo(_, _, _)
\* lines 123-126, the first n iterations
PropagateTo(sys, s, n) ==
    IF n = 0 THEN s ELSE PropagateOne(sys, PropagateTo(sys, s, n - 1), n - 1)

\* lines 121-126
Advance(sys, s, p, steps) == PropagateTo(sys, Force(sys, s, p), steps)

\* Temperature without the ambient offset.
TemperatureNoAmbient(sys, amb, s, i, j) ==
    FMul(At(sys.D, i), At(s.mem, (j + 1) * sys.nodes + i))

\* Temperature read from block j, not block j + 1.
TemperatureOfBlockJ(sys, amb, s, i, j) ==
    FAdd(FMul(At(sys.D, i), At(s.mem, j * sys.nodes + i)), amb)

\* line 130, the value written
Temperature(sys, amb, s, i, j) ==
    FAdd(FMul(At(sys.D, i), At(s.mem, (j + 1) * sys.nodes + i)), amb)

RECURSIVE ExtractFrom(_, _, _, _, _, _)
\* lines 128-132 from iteration n of the loop nest on (i outer, j inner);
\* the bounds check of Q[j * cores + i] ends the call in a panic.
ExtractFrom(sys, amb, s, steps, q, n) ==
    IF n = sys.cores * steps THEN [Q |-> q, panic |-> FALSE]
    ELSE IF (n % steps) * sys.cores + (n \div steps) >= Len(q)
    THEN [Q |-> q, panic |-> TRUE]
    ELSE ExtractFrom(sys, amb, s, steps,
                     [q EXCEPT ![(n % steps) * sys.cores + (n \div steps) + 1] =
                         Temperature(sys, amb, s, n \div steps, n % steps)],
                     n + 1)

\* lines 128-132
Extract(sys, amb, s, steps, q) == ExtractFrom(sys, amb, s, steps, q, 0)

\* lines 99-103 and 108, in a build that keeps them
AssertionFails(sys, s, p, q) ==
    \/ Len(p) % sys.cores # 0
    \/ Len(q) % sys.cores # 0
    \/ ~(Len(p) \div sys.cores > 0)
    \/ ~(s.len >= sys.nodes /\ s.len % sys.nodes = 0)

\* The buffer s1 a call leaves with what its extraction loop r wrote.
Outcome(s1, r) == [S |-> s1, Q |-> r.Q, panic |-> r.panic]

\* lines 128-132 on the advanced buffer s1
Finish(sys, amb, s1, steps, q) == Outcome(s1, Extract(sys, amb, s1, steps, q))

\* What step(P, Q) leaves behind: S, Q and whether it panicked.
StepResult(dbg, sys, amb, s, p, q) ==
    LET steps == Len(p) \div sys.cores
        required == (steps + 1) * sys.nodes
    IN IF dbg /\ AssertionFails(sys, s, p, q)
       THEN [S |-> s, Q |-> q, panic |-> TRUE]
       ELSE IF GrowPanics(s, sys.nodes, required)
       THEN [S |-> MoveLast(s, sys.nodes), Q |-> q, panic |-> TRUE]
       ELSE Finish(sys, amb, Advance(sys, Grow(s, sys.nodes, required), p, steps),
                   steps, q)

\* The power traces of `steps` columns.
Traces(cores, steps) == [1..(cores * steps) -> Powers]

\* A call of step(p, q0), to its return or its panic.
Step(p, q0) ==
    /\ pc = "ready"
    /\ total + Len(p) \div system.cores <= MaxTotal
    /\ \E r \in {StepResult(debug, system, config.ambience, S, p, q0)} :
          /\ S' = r.S
          /\ Q' = r.Q
          /\ pc' = IF r.panic THEN "panicked" ELSE "ready"
    /\ P' = p
    /\ pre' = [S |-> S, Q |-> q0]
    /\ total' = total + Len(p) \div system.cores
    /\ UNCHANGED <<debug, config, system, T1>>

\* Analysis::new with any circuit and configuration.
Construct ==
    /\ pc = "new"
    /\ \E nodes \in NodeCounts, dt \in TimeSteps, ambience \in Ambiences :
         \E cores \in 1..nodes, capacitance \in [1..nodes -> CapacitanceDens],
            U \in EigenBases(nodes), L \in [1..nodes -> Eigenvalues] :
           New(nodes, cores, capacitance, dt, ambience, U, L)

\* A call that keeps the precondition of step: at least one step, and a Q
\* of the length of P.
ValidCall ==
    /\ pc = "ready"
    /\ \E steps \in 1..MaxSteps :
         \E p \in Traces(system.cores, steps) : Step(p, Fill(Stale, Len(p)))

\* A call with slices of any lengths that are multiples of cores.
AnyCall ==
    /\ pc = "ready"
    /\ \E steps \in 0..MaxSteps :
         \E p \in Traces(system.cores, steps),
            qsteps \in {steps - 1, steps, steps + 1} \cap Nat :
           Step(p, Fill(Stale, qsteps * system.cores))

\* The program used as its contract asks.
Next == Construct \/ NewFails \/ ValidCall

Spec == Init /\ [][Next]_vars

\* The program with callers that may break the precondition of step.
NextAny == Construct \/ NewFails \/ AnyCall

SpecAny == Init /\ [][NextAny]_vars

\* ------------------------------------------------------------ the claims

\* A call of step has ended (by return or panic).
Called == pre.S # NoVec

\* A call of step has returned.
Returned == pc = "ready" /\ Called

\* The step count of the latest call.
LastSteps == Len(P) \div system.cores

\* Block b of the buffer s.
Block(s, b) == Slice(s.mem, b * system.nodes, (b + 1) * system.nodes)

\* The state the latest call started from: the last block of S before it.
T0 == Block(pre.S, (pre.S.len \div system.nodes) - 1)

Finite(a) == \A x \in 1..Len(a) : a[x].k = "num"

\* The engine's operators are finite numbers (no eigenvalue was zero).
Sound == Finite(system.E) /\ Finite(system.F)

\* Column j of the power trace p.
Column(p, j) == Slice(p, j * system.cores, (j + 1) * system.cores)

\* The calls r followed by the call c: the buffer left, the outputs written
\* so far, and whether a call panicked.
Then(r, c) == [S |-> c.S, Q |-> r.Q \o c.Q, panic |-> r.panic \/ c.panic]

\* A call of step with steps = 1 on the column `column`, from the buffer s.
Single(s, column) ==
    StepResult(debug, system, config.ambience, s, column, Fill(Stale, system.cores))

RECURSIVE SinglesFrom(_, _, _)
\* Columns n, n+1, ... of p given to calls of step with steps = 1, one after
\* the other, after the calls r.
SinglesFrom(r, p, n) ==
    IF n * system.cores >= Len(p) THEN r
    ELSE SinglesFrom(Then(r, Single(r.S, Column(p, n))), p, n + 1)

\* Every column of p given to its own call of step, starting from s.
Singles(s, p) == SinglesFrom([S |-> s, Q |-> <<>>, panic |-> FALSE], p, 0)

\* The latest call wrote what the single calls r wrote and left their state.
SameAs(r) == ~r.panic /\ r.Q = Q /\ Block(r.S, 1) = Block(S, LastSteps)

\* C1: the outputs of a call with k columns are those of k calls with one
\* column each, started from the same engine state.
C1_SingleBatched == Returned => SameAs(Singles(pre.S, P))

C1_Witness ==
    /\ Returned
    /\ LastSteps >= 2
    /\ Finite(Q)
    /\ \E x \in 1..system.cores : Q[x] # Q[x + system.cores]
    /\ \E x \in 1..system.nodes : T0[x] # Zero

\* What a caller can observe of the result r of a call: the outputs and the
\* logical contents of the buffer.
Observable(r) == [Q |-> r.Q, S |-> Slice(r.S.mem, 0, r.S.len)]

\* The outputs and the logical contents of the buffer of a call that grows
\* the buffer s the given way.
Via(grown) ==
    Observable(Finish(system, config.ambience, Advance(system, grown, P, LastSteps),
                      LastSteps, pre.Q))

\* C2: a call writes the same outputs (and leaves the same history) through
\* the reallocation branch and, where the capacity allows it, through the
\* reuse branch, whatever earlier calls left beyond the first block.
C2_GrowthIndependent ==
    Returned =>
        LET required == (LastSteps + 1) * system.nodes
            now == Observable([Q |-> Q, S |-> S])
        IN /\ Via(Reallocate(pre.S, system.nodes, required)) = now
           /\ (pre.S.cap >= required =>
                 Via(Reuse(pre.S, system.nodes, required)) = now)

C2_Witness ==
    /\ Returned
    /\ ~NeedsReallocation(pre.S, (LastSteps + 1) * system.nodes)
    /\ \E x \in (system.nodes + 1)..((LastSteps + 1) * system.nodes) :
          pre.S.mem[x] # Zero
    /\ Finite(Q)

\* The outputs of step(p, _) started from the buffer s.
Outputs(s, p) ==
    StepResult(debug, system, config.ambience, s, p, Fill(Stale, Len(p))).Q

\* q1 + q2 - ambient, entry by entry
Superpose(q1, q2) ==
    Array([x \in 1..Len(q1) |-> FSub(FAdd(q1[x], q2[x]), config.ambience)], Len(q1))

\* The traces P1 for which P1 and P - P1 are both power traces.
Parts(p) == {p1 \in Traces(system.cores, LastSteps) :
                \A x \in 1..Len(p) : FSub(p[x], p1[x]) \in Powers}

\* The latest call's outputs are those of P1 plus those of P2 less the
\* ambient temperature, for all power traces P1 and P2 with P1 + P2 = P.
Superposed ==
    \A p1 \in Parts(P) :
        Q = Superpose(Outputs(pre.S, p1),
                      Outputs(pre.S, [x \in 1..Len(P) |-> FSub(P[x], p1[x])]))

\* C3 as stated: superposition from any engine state (shown on engines with
\* finite operators).
C3_SuperpositionAnyState == (Returned /\ Sound) => Superposed

\* C3 amended: superposition from an engine state whose latest block is zero.
C3_SuperpositionFromZero == (Returned /\ T0 = Fill(Zero, system.nodes)) => Superposed

C3_Witness ==
    /\ Returned
    /\ T0 = Fill(Zero, system.nodes)
    /\ total > LastSteps
    /\ Finite(Q)
    /\ \E x, y \in 1..Len(P) : x # y /\ P[x] = One /\ P[y] = One
    /\ \E x \in 1..Len(Q) : Q[x] # config.ambience

\* C4: a call whose P and Q imply different step counts ends in a panic
\* (shown on engines with finite operators).
C4_MismatchPanics ==
    (Called /\ Sound /\ Len(pre.Q) \div system.cores # Len(P) \div system.cores)
        => pc = "panicked"

\* C5: a call that panicked left every element of Q as it was (shown on
\* engines with finite operators).
C5_NoPartialResults == (pc = "panicked" /\ Sound) => Q = pre.Q

\* C6: the forcing coefficient of a zero eigenvalue is the time step.
C6_ZeroEigenvalueLimit ==
    pc = "ready" =>
        \A i \in 1..system.nodes :
            system.L[i] = Zero => T1[i] = Num(config.time_step)

\* C7: from a zero state, a zero power trace gives the ambient temperature
\* in every entry of Q.
C7_ZeroPowerAmbient ==
    (Returned /\ T0 = Fill(Zero, system.nodes) /\ P = Fill(Zero, Len(P)))
        => Q = Fill(config.ambience, Len(P))

\* y = M * v for the column-major matrix M with `rows` rows
MatVec(M, v, rows) ==
    Array([r \in 1..rows |->
              LET RECURSIVE Sum(_)
                  Sum(c) == IF c = 0 THEN Zero
                            ELSE FAdd(Sum(c - 1), FMul(M[(c - 1) * rows + r], v[c]))
              IN Sum(Len(v))], rows)

\* a + b, entry by entry
VecAdd(a, b) == Array([r \in 1..Len(a) |-> FAdd(a[r], b[r])], Len(a))

\* E * t + F * p
Recur(t, p) ==
    VecAdd(MatVec(system.E, t, system.nodes), MatVec(system.F, p, system.nodes))

RECURSIVE T(_)
\* T_0 is the state the latest call started from, T_{i+1} = E*T_i + F*p_i.
T(i) == IF i = 0 THEN T0 ELSE Recur(T(i - 1), Column(P, i - 1))

\* Block j+1 of S is t, and Q[j*cores + c] = D[c] * t[c] + ambient.
Holds(j, t) ==
    /\ Block(S, j + 1) = t
    /\ \A c \in 0..(system.cores - 1) :
          At(Q, j * system.cores + c)
              = FAdd(FMul(At(system.D, c), At(t, c)), config.ambience)

\* C8: after a call, block i+1 of S is T_{i+1}, block 0 is T_0, and
\* Q[j*cores + c] = D[c] * T_{j+1}[c] + ambient.
C8_Recurrence ==
    Returned =>
        /\ Block(S, 0) = T0
        /\ \A j \in 0..(LastSteps - 1) : Holds(j, T(j + 1))

C8_Witness ==
    /\ Returned
    /\ LastSteps >= 2
    /\ total > LastSteps
    /\ Finite(Q)
    /\ \E x \in 1..system.nodes : T0[x] # Zero
    /\ \E x \in 1..system.cores : Q[x] # Q[x + system.cores]
    /\ \E c \in 1..system.cores : system.D[c] # One

\* C9: len(S) is a positive multiple of nodes within the capacity, and after
\* a call it is (steps + 1) * nodes.
C9_LengthInvariant ==
    pc = "ready" =>
        /\ S.len >= system.nodes
        /\ S.len % system.nodes = 0
        /\ S.len <= S.cap
        /\ Len(S.mem) = S.cap
        /\ Called => S.len = (LastSteps + 1) * system.nodes

C9_Witness == Returned /\ S.len < S.cap /\ total = MaxTotal

\* C10 as stated: a call never leaves len(S) smaller than it found it (shown
\* on engines with finite operators).
C10_LengthNeverShrinks == (Returned /\ Sound) => S.len >= pre.S.len

\* C10 amended: a call never leaves the capacity of S smaller than it found
\* it, and the length it leaves is within that capacity.
C10_CapacityNeverShrinks == Returned => (S.cap >= pre.S.cap /\ S.len <= S.cap)

C10_Witness == Returned /\ Sound /\ S.len < pre.S.len /\ S.cap = pre.S.cap

====
